---- MODULE Spec2Model ----
(***************************************************************************)
(* Model of the crypto ticker TUI (src/src/main.rs).                       *)
(*                                                                         *)
(* Three flows of control share the program's state:                       *)
(*   - the feed bridge   (subscribe_to_ticker, the task spawned at 119),   *)
(*   - the ingestion loop (the task spawned in main at 652),               *)
(*   - the render loop   (run_app, on the main task).                      *)
(* The bridge and the ingestion loop are joined by the mpsc channel made   *)
(* in main; the ingestion loop and the render loop share the               *)
(* Arc<Mutex<Vec<HrTicker>>>.                                              *)
(*                                                                         *)
(* f32 values are modelled by integers (every price used here is a small   *)
(* integer, which f32 holds exactly).  Strings that the program compares   *)
(* are compared through their bytes (Bytes), as String::cmp does.          *)
(***************************************************************************)
EXTENDS Integers, Sequences, FiniteSets, TLC

VARIABLES
    feedLeft,       \* text messages the feed can still deliver
    bpc,            \* feed bridge: "recv" | "send" | "closed" | "panicked" | "gone"
    parsed,         \* the decoded batch the bridge is about to send
    queue,          \* content of the mpsc channel (oldest first)
    ipc,            \* ingestion loop: "recv" | "lock" | "find" | "copy" | "ended" | "gone"
    results,        \* records of the batch being applied that are still to apply
    idx,            \* index of the record being updated in place (0: none)
    lock,           \* owner of the Mutex: "free" | "ingest"
    tickers,        \* the shared Vec<HrTicker>
    apc,            \* main task: "events" | "len" | "table" | "exited" | "failed"
                    \* | "panicked"
    raw_mode,       \* the terminal is in raw mode
    mode,           \* App.mode
    selected,       \* App.state.selected(): None or an index
    scroll_position,\* App.scroll_position
    color_index,    \* App.color_index
    colors,         \* App.colors, as the index of the palette it was built from
    ticker_length,  \* App.ticker_length
    sort_order,     \* App.sort_order
    sort_column,    \* App.sort_column
    show_chart,     \* App.show_chart
    chart_data,     \* App.chart_data: "None" or "Some" (a fetch is in flight)
    keysLeft,       \* key presses the user can still make
    sent,           \* history: every batch the bridge has put on the channel
    ntaken          \* history: number of batches the ingestion loop has taken

bridgeVars == <<feedLeft, bpc, parsed>>
ingestVars == <<ipc, results, idx>>
appVars    == <<mode, selected, scroll_position, color_index, colors,
                ticker_length, sort_order, sort_column, show_chart, chart_data>>
vars == <<feedLeft, bpc, parsed, queue, ipc, results, idx, lock, tickers, apc,
          mode, selected, scroll_position, color_index, colors, ticker_length,
          sort_order, sort_column, show_chart, chart_data, keysLeft, sent,
          ntaken, raw_mode>>

(***************************************************************************)
(* Bounds of the model.                                                    *)
(***************************************************************************)
\* number of text messages the feed delivers in a run
MaxMsgs == 3
\* number of key presses in a run
MaxKeys == 1
\* capacity of the mpsc channel; main.rs:650 makes it 100, the model scales
\* it down so that a full channel is reachable
ChannelCapacity == 2
\* number of records the feed has delivered before the frames of FrameSpec
MaxRecs == 3
\* number of key presses in a run of SessionSpec
SessionKeys == 7

(***************************************************************************)
(* Program constants.                                                      *)
(***************************************************************************)
ITEM_HEIGHT == 1
PaletteCount == 4
InitialColorIndex == 2
InitialTickerLength == 25
\* usize arithmetic, scaled from 64 to 16 bits
UsizeModulus == 2^16

\* Option<usize>::None of TableState::selected; Some(i) is i
None == -1

(***************************************************************************)
(* f32 values: the integers, which stand for the numbers, and NaN.         *)
(***************************************************************************)
\* the value "NaN".parse::<f32>() gives (line 109)
NaN == -2

\* f32::partial_cmp: None when either side is NaN
partial_cmp(a, b) ==
    IF a = NaN \/ b = NaN THEN "None"
    ELSE IF a < b THEN "Less"
    ELSE IF a > b THEN "Greater"
    ELSE "Equal"

(***************************************************************************)
(* HrTicker values.                                                        *)
(***************************************************************************)
default_previous_price == 0

Ticker(s, E, c, P, o, h, l, v, k) ==
    [e |-> "24hrTicker", E |-> E, s |-> s, p |-> k, P |-> P, w |-> c + k,
     c |-> c, Q |-> k, o |-> o, h |-> h, l |-> l, v |-> v, q |-> v,
     O |-> E, C |-> E + 1, F |-> k, L |-> k + 1, n |-> k + 2,
     previous_price |-> default_previous_price]

\* the records the feed's messages carry
B1 == Ticker("BTCUSDT", 1, 50000, 2, 49000, 50100, 48900, "9", 1)
A1 == Ticker("ADAUSDT", 1, 50000, 1, 40, 60, 30, "10", 2)
A2 == Ticker("ADAUSDT", 2, 50500, 3, 41, 65, 35, "11", 3)

Records == {B1, A1, A2}

\* a record whose last price, percent change and low price are "NaN" in the
\* message, and which ties with B1 on the open price, high price and volume
N1 == [Ticker("ETHUSDT", 1, 0, 0, 49000, 50100, 0, "9", 4)
          EXCEPT !.c = NaN, !.P = NaN, !.l = NaN, !.w = NaN]

\* bytes of the strings the program compares (symbols and volumes)
Bytes(str) ==
    CASE str = "BTCUSDT" -> <<66, 84, 67, 85, 83, 68, 84>>
      [] str = "ADAUSDT" -> <<65, 68, 65, 85, 83, 68, 84>>
      [] str = "ETHUSDT" -> <<69, 84, 72, 85, 83, 68, 84>>
      [] str = "9"       -> <<57>>
      [] str = "10"      -> <<49, 48>>
      [] str = "11"      -> <<49, 49>>

(***************************************************************************)
(* Websocket messages.  A text message carries a JSON text; serde_json     *)
(* turns a well-formed one into a Vec<HrTicker> and fails on any other.    *)
(***************************************************************************)
TextMessage(batch) == [kind |-> "Text", wellFormed |-> TRUE, body |-> batch]
MalformedText      == [kind |-> "Text", wellFormed |-> FALSE, body |-> <<>>]
\* a binary / ping / pong / close frame, or an Err item of the stream
OtherMessage       == [kind |-> "Other", wellFormed |-> FALSE, body |-> <<>>]

Batches == { <<B1, A1>>, <<A2, A2>> }

Messages == {TextMessage(b) : b \in Batches} \cup {MalformedText, OtherMessage}

\* serde_json::from_str::<Vec<HrTicker>>(&text): Ok(batch) or Err
from_str(m) == IF m.wellFormed THEN [ok |-> TRUE, value |-> m.body]
                               ELSE [ok |-> FALSE, value |-> <<>>]

(***************************************************************************)
(* update_tickers, record by record.                                       *)
(***************************************************************************)
\* tickers.iter_mut().find(|t| t.s == new_ticker.s): index of the first
\* record with that symbol, 0 when there is none
FindNone(tks, s) == 0
FindLastOnly(tks, s) ==
    IF tks # <<>> /\ tks[Len(tks)].s = s THEN Len(tks) ELSE 0
FindIndex(tks, s) ==
    IF \E i \in 1..Len(tks) : tks[i].s = s
    THEN CHOOSE i \in 1..Len(tks) :
            tks[i].s = s /\ \A j \in 1..(i - 1) : tks[j].s # s
    ELSE 0

\* line 593: existing_ticker.previous_price = existing_ticker.c
Carry(tks, i) == [tks EXCEPT ![i].previous_price = tks[i].c]

\* lines 594-608: the fifteen field assignments
ReplaceNoLow(tks, i, new) ==
    [tks EXCEPT ![i].p = new.p, ![i].P = new.P, ![i].w = new.w,
                ![i].c = new.c, ![i].Q = new.Q, ![i].o = new.o,
                ![i].h = new.h, ![i].v = new.v,
                ![i].q = new.q, ![i].O = new.O, ![i].C = new.C,
                ![i].F = new.F, ![i].L = new.L, ![i].n = new.n]
Replace(tks, i, new) ==
    [tks EXCEPT ![i].p = new.p, ![i].P = new.P, ![i].w = new.w,
                ![i].c = new.c, ![i].Q = new.Q, ![i].o = new.o,
                ![i].h = new.h, ![i].l = new.l, ![i].v = new.v,
                ![i].q = new.q, ![i].O = new.O, ![i].C = new.C,
                ![i].F = new.F, ![i].L = new.L, ![i].n = new.n]

\* one iteration of the for loop of update_tickers (lines 589-615)
Upsert(tks, new) ==
    LET i == FindIndex(tks, new.s) IN
    IF i = 0 THEN Append(tks, new)
             ELSE Replace(Carry(tks, i), i, new)

\* the whole loop
RECURSIVE UpsertAll(_, _)
UpsertAll(tks, batch) ==
    IF batch = <<>> THEN tks
    ELSE UpsertAll(Upsert(tks, Head(batch)), Tail(batch))

(***************************************************************************)
(* App::sort_tickers.                                                      *)
(***************************************************************************)
\* Ord for String / str: bytewise lexicographic
RECURSIVE LexLess(_, _)
LexLess(a, b) ==
    IF b = <<>> THEN FALSE
    ELSE IF a = <<>> THEN TRUE
    ELSE IF Head(a) # Head(b) THEN Head(a) < Head(b)
    ELSE LexLess(Tail(a), Tail(b))

NumericColumns == {"Last", "PercentChange", "Open", "High", "Low"}

\* the f32 field that the comparator of a numeric column reads
NumericKey(col, t) ==
    CASE col = "Last"          -> t.c
      [] col = "PercentChange" -> t.P
      [] col = "Open"          -> t.o
      [] col = "High"          -> t.h
      [] col = "Low"           -> t.l

\* partial_cmp(..).unwrap() panics inside sort_by: a sort of two or more
\* records compares every one of them with another at least once, and a
\* comparison with NaN is None
NaNIgnored(col, tks) == FALSE
SortPanics(col, tks) ==
    /\ col \in NumericColumns
    /\ Len(tks) >= 2
    /\ \E i \in 1..Len(tks) : NumericKey(col, tks[i]) = NaN

\* the comparator of the column: TRUE iff cmp(a, b) is Less
LessVolumeByLength(col, a, b) ==
    CASE col = "Symbol"        -> LexLess(Bytes(a.s), Bytes(b.s))
      [] col = "Last"          -> partial_cmp(a.c, b.c) = "Less"
      [] col = "PercentChange" -> partial_cmp(a.P, b.P) = "Less"
      [] col = "Open"          -> partial_cmp(a.o, b.o) = "Less"
      [] col = "High"          -> partial_cmp(a.h, b.h) = "Less"
      [] col = "Low"           -> partial_cmp(a.l, b.l) = "Less"
      [] col = "Volume"        ->
            \/ Len(Bytes(a.v)) < Len(Bytes(b.v))
            \/ Len(Bytes(a.v)) = Len(Bytes(b.v)) /\ LexLess(Bytes(a.v), Bytes(b.v))
Less(col, a, b) ==
    CASE col = "Symbol"        -> LexLess(Bytes(a.s), Bytes(b.s))
      [] col = "Last"          -> partial_cmp(a.c, b.c) = "Less"
      [] col = "PercentChange" -> partial_cmp(a.P, b.P) = "Less"
      [] col = "Open"          -> partial_cmp(a.o, b.o) = "Less"
      [] col = "High"          -> partial_cmp(a.h, b.h) = "Less"
      [] col = "Low"           -> partial_cmp(a.l, b.l) = "Less"
      [] col = "Volume"        -> LexLess(Bytes(a.v), Bytes(b.v))

\* slice::sort_by is a stable sort: x goes before the first element that is
\* greater than it, so equal elements keep their order
RECURSIVE InsertStable(_, _, _)
InsertStable(col, sorted, x) ==
    IF sorted = <<>> THEN <<x>>
    ELSE IF Less(col, x, Head(sorted)) THEN <<x>> \o sorted
    ELSE <<Head(sorted)>> \o InsertStable(col, Tail(sorted), x)

RECURSIVE sort_by(_, _)
sort_by(col, tks) ==
    IF tks = <<>> THEN <<>>
    ELSE InsertStable(col, sort_by(col, SubSeq(tks, 1, Len(tks) - 1)), tks[Len(tks)])

reverse(tks) == [i \in 1..Len(tks) |-> tks[Len(tks) + 1 - i]]

\* a stable sort under the comparator turned around
RECURSIVE InsertDescending(_, _, _)
InsertDescending(col, sorted, x) ==
    IF sorted = <<>> THEN <<x>>
    ELSE IF Less(col, Head(sorted), x) THEN <<x>> \o sorted
    ELSE <<Head(sorted)>> \o InsertDescending(col, Tail(sorted), x)

RECURSIVE SortDescending(_, _)
SortDescending(col, tks) ==
    IF tks = <<>> THEN <<>>
    ELSE InsertDescending(col, SortDescending(col, SubSeq(tks, 1, Len(tks) - 1)),
                          tks[Len(tks)])

SortByTurnedComparator(col, order, tks) ==
    IF order = "Descending" THEN SortDescending(col, tks) ELSE sort_by(col, tks)
sort_tickers(col, order, tks) ==
    IF order = "Descending" THEN reverse(sort_by(col, tks)) ELSE sort_by(col, tks)

(***************************************************************************)
(* Initial state: main up to the call of run_app (lines 648-669), where    *)
(* enable_raw_mode (line 662) has put the terminal in raw mode.            *)
(***************************************************************************)
Init ==
    /\ feedLeft = MaxMsgs
    /\ bpc = "recv"
    /\ parsed = <<>>
    /\ queue = <<>>
    /\ ipc = "recv"
    /\ results = <<>>
    /\ idx = 0
    /\ lock = "free"
    /\ tickers = <<>>
    /\ apc = "events"
    /\ raw_mode = TRUE
    /\ mode = "Running"
    /\ selected = None
    /\ scroll_position = 0
    /\ color_index = InitialColorIndex
    /\ colors = 0
    /\ ticker_length = InitialTickerLength
    /\ sort_order = "Ascending"
    /\ sort_column = "Symbol"
    /\ show_chart = FALSE
    /\ chart_data = "None"
    /\ keysLeft = MaxKeys
    /\ sent = <<>>
    /\ ntaken = 0

\* the process is running: main has neither returned nor panicked, so the
\* runtime still polls the spawned tasks
Alive == apc \notin {"exited", "failed", "panicked"}

\* main returns or panics: the runtime is dropped and with it the spawned
\* tasks, the channel and the Vec; nothing of them is left to look at
ProcessGone ==
    /\ feedLeft' = 0 /\ bpc' = "gone" /\ parsed' = <<>>
    /\ queue' = <<>>
    /\ ipc' = "gone" /\ results' = <<>> /\ idx' = 0
    /\ lock' = "free"
    /\ tickers' = <<>>
    /\ keysLeft' = 0
    /\ sent' = <<>> /\ ntaken' = 0

\* Mutex::lock returns once no other guard is alive
LockIgnored == TRUE
LockFree == lock = "free"

(***************************************************************************)
(* Feed bridge: the task spawned in subscribe_to_ticker (lines 119-126).   *)
(***************************************************************************)
\* tx.send blocks while the channel holds `capacity` messages
NoCapacityCheck(q) == TRUE
HasCapacity(q) == Len(q) < ChannelCapacity

\* the channel is a FIFO: send appends at the back
EnqueueFront(q, batch) == <<batch>> \o q
Enqueue(q, batch) == Append(q, batch)

\* read.next() yields a well-formed text message (lines 120-122)
BridgeRecvText ==
    /\ Alive /\ bpc = "recv" /\ feedLeft > 0
    /\ \E m \in Messages :
        /\ m.kind = "Text" /\ from_str(m).ok
        /\ parsed' = from_str(m).value
    /\ bpc' = "send"
    /\ feedLeft' = feedLeft - 1
    /\ UNCHANGED <<queue, ingestVars, lock, tickers, apc, appVars, keysLeft, sent, ntaken, raw_mode>>

\* read.next() yields a text message that does not decode: unwrap() panics
\* and the task ends (line 122)
BridgeRecvMalformed ==
    /\ Alive /\ bpc = "recv" /\ feedLeft > 0
    /\ \E m \in Messages : m.kind = "Text" /\ ~from_str(m).ok
    /\ bpc' = "panicked"
    /\ feedLeft' = feedLeft - 1
    /\ UNCHANGED <<parsed, queue, ingestVars, lock, tickers, apc, appVars, keysLeft, sent, ntaken, raw_mode>>

\* read.next() yields anything that is not Ok(Message::Text): skipped, no
\* state of the program changes (line 121)
BridgeRecvOther ==
    /\ Alive /\ bpc = "recv"
    /\ \E m \in Messages : m.kind # "Text"
    /\ UNCHANGED vars

\* read.next() yields None: the while loop and the task end, tx is dropped
BridgeStreamEnd ==
    /\ Alive /\ bpc = "recv"
    /\ bpc' = "closed"
    /\ feedLeft' = 0
    /\ UNCHANGED <<parsed, queue, ingestVars, lock, tickers, apc, appVars, keysLeft, sent, ntaken, raw_mode>>

\* tx.send(parsed).await completes (line 123)
BridgeSend ==
    /\ Alive /\ bpc = "send"
    /\ HasCapacity(queue)
    /\ queue' = Enqueue(queue, parsed)
    /\ sent' = Append(sent, parsed)
    /\ parsed' = <<>>
    /\ bpc' = "recv"
    /\ UNCHANGED <<feedLeft, ingestVars, lock, tickers, apc, appVars, keysLeft, ntaken, raw_mode>>

(***************************************************************************)
(* Ingestion loop: the task spawned in main (lines 652-656), which calls   *)
(* update_tickers (lines 586-616).  The loop body of update_tickers is     *)
(* split where another thread could look at the Vec: after line 593 and    *)
(* after line 608.                                                         *)
(***************************************************************************)
\* the guard is dropped when update_tickers returns
StillLocked == "ingest"
Unlocked == "free"

\* rx.recv() takes the oldest batch of the channel
Dequeue(q) == [batch |-> Head(q), rest |-> Tail(q)]

\* rx.recv().await yields Some(results) (line 653)
IngestRecv ==
    /\ Alive /\ ipc = "recv" /\ queue # <<>>
    /\ results' = Dequeue(queue).batch
    /\ queue' = Dequeue(queue).rest
    /\ ntaken' = ntaken + 1
    /\ ipc' = "lock"
    /\ UNCHANGED <<bridgeVars, idx, lock, tickers, apc, appVars, keysLeft, sent, raw_mode>>

\* rx.recv().await yields None: every sender is gone and the channel is empty
IngestChannelClosed ==
    /\ Alive /\ ipc = "recv" /\ queue = <<>>
    /\ bpc \in {"closed", "panicked"}
    /\ ipc' = "ended"
    /\ UNCHANGED <<bridgeVars, queue, results, idx, lock, tickers, apc, appVars, keysLeft, sent, ntaken, raw_mode>>

\* tickers.lock().unwrap() (line 587)
IngestLock ==
    /\ Alive /\ ipc = "lock"
    /\ LockFree
    /\ IF results = <<>>
       THEN lock' = Unlocked /\ ipc' = "recv"
       ELSE lock' = "ingest" /\ ipc' = "find"
    /\ UNCHANGED <<bridgeVars, queue, results, idx, tickers, apc, appVars, keysLeft, sent, ntaken, raw_mode>>

\* find returns None: tickers.push(new_ticker) (lines 610-613)
IngestPush ==
    /\ Alive /\ ipc = "find"
    /\ FindIndex(tickers, Head(results).s) = 0
    /\ tickers' = Append(tickers, Head(results))
    /\ results' = Tail(results)
    /\ IF results' = <<>>
       THEN lock' = Unlocked /\ ipc' = "recv"
       ELSE lock' = lock /\ ipc' = "find"
    /\ UNCHANGED <<bridgeVars, queue, idx, apc, appVars, keysLeft, sent, ntaken, raw_mode>>

\* find returns Some(existing_ticker): the previous price is carried (line 593)
IngestCarry ==
    /\ Alive /\ ipc = "find"
    /\ FindIndex(tickers, Head(results).s) # 0
    /\ idx' = FindIndex(tickers, Head(results).s)
    /\ tickers' = Carry(tickers, idx')
    /\ ipc' = "copy"
    /\ UNCHANGED <<bridgeVars, queue, results, lock, apc, appVars, keysLeft, sent, ntaken, raw_mode>>

\* the other fields are replaced (lines 594-608)
IngestReplace ==
    /\ Alive /\ ipc = "copy"
    /\ tickers' = Replace(tickers, idx, Head(results))
    /\ results' = Tail(results)
    /\ idx' = 0
    /\ IF results' = <<>>
       THEN lock' = Unlocked /\ ipc' = "recv"
       ELSE lock' = lock /\ ipc' = "find"
    /\ UNCHANGED <<bridgeVars, queue, apc, appVars, keysLeft, sent, ntaken, raw_mode>>

(***************************************************************************)
(* View session: the App methods that the key handler calls.               *)
(***************************************************************************)
\* usize subtraction and addition as a build without overflow checks (the
\* release profile) computes them; a build with overflow checks (the dev
\* profile) panics where they wrap
WrappingSub(a, b) == (a - b + UsizeModulus) % UsizeModulus
WrappingAdd(a, b) == (a + b) % UsizeModulus

\* the new selection of App::next (lines 233-242)
NextSelectedOffByOne(sel, n) ==
    IF sel = None THEN 0
    ELSE IF sel > WrappingSub(n, 1) THEN 0 ELSE sel + 1
NextSelected(sel, n) ==
    IF sel = None THEN 0
    ELSE IF sel >= WrappingSub(n, 1) THEN 0 ELSE sel + 1

\* the new selection of App::previous (lines 249-258)
PreviousSelected(sel, n) ==
    IF sel = None THEN 0
    ELSE IF sel = 0 THEN WrappingSub(n, 1) ELSE sel - 1

\* the arithmetic of App::next overflows
NextOverflows ==
    \/ selected # None /\ ticker_length < 1
    \/ scroll_position + ITEM_HEIGHT >= UsizeModulus

\* the arithmetic of App::previous overflows
PreviousOverflows ==
    \/ selected = 0 /\ ticker_length < 1
    \/ scroll_position < ITEM_HEIGHT

\* App::is_running (lines 228-230)
NeverQuits(m) == TRUE
is_running(m) == m # "Quit"

NextSortColumnSkipsLow(col) ==
    CASE col = "Symbol"        -> "Last"
      [] col = "Last"          -> "PercentChange"
      [] col = "PercentChange" -> "Open"
      [] col = "Open"          -> "High"
      [] col = "High"          -> "Volume"
      [] col = "Low"           -> "Volume"
      [] col = "Volume"        -> "Symbol"
NextSortColumn(col) ==
    CASE col = "Symbol"        -> "Last"
      [] col = "Last"          -> "PercentChange"
      [] col = "PercentChange" -> "Open"
      [] col = "Open"          -> "High"
      [] col = "High"          -> "Low"
      [] col = "Low"           -> "Volume"
      [] col = "Volume"        -> "Symbol"

(***************************************************************************)
(* Render loop: run_app (lines 617-645).  One iteration is handle_events,  *)
(* get_chart_data (chart_data is never Some: the Enter binding is          *)
(* commented out, lines 341-349) and terminal.draw.  The draw closure      *)
(* locks the Mutex twice: for len() at line 634 and in render_table.       *)
(* No assignment that is compiled sets show_chart, so the chart branch of  *)
(* ui (lines 374-388) is never taken.                                      *)
(***************************************************************************)
\* handle_events met with no event, a non-key event or an unbound key
NoEvent ==
    /\ apc = "events"
    /\ apc' = "len"
    /\ UNCHANGED <<bridgeVars, queue, ingestVars, lock, tickers, appVars, keysLeft, sent, ntaken, raw_mode>>

\* main after run_app has returned Ok (lines 671-678): disable_raw_mode and
\* LeaveAlternateScreen, then main returns
Restore == FALSE

\* term::next_event returns Err: run_app breaks out of the loop (line 624)
\* and returns Ok, main restores the terminal and returns
EventError ==
    /\ apc = "events"
    /\ apc' = "exited"
    /\ raw_mode' = Restore
    /\ ProcessGone
    /\ UNCHANGED appVars

\* 'q' | Esc
KeyQuit ==
    /\ apc = "events" /\ keysLeft > 0
    /\ mode' = "Quit"
    /\ keysLeft' = keysLeft - 1
    /\ apc' = "len"
    /\ UNCHANGED <<bridgeVars, queue, ingestVars, lock, tickers, selected,
                   scroll_position, color_index, colors, ticker_length,
                   sort_order, sort_column, sent, ntaken, raw_mode,
                   show_chart, chart_data>>

\* 'j' | Down: App::next
KeyNext ==
    /\ apc = "events" /\ keysLeft > 0
    /\ selected' = NextSelected(selected, ticker_length)
    /\ scroll_position' = WrappingAdd(scroll_position, ITEM_HEIGHT)
    /\ keysLeft' = keysLeft - 1
    /\ apc' = "len"
    /\ UNCHANGED <<bridgeVars, queue, ingestVars, lock, tickers, mode,
                   color_index, colors, ticker_length, sort_order, sort_column,
                   sent, ntaken, raw_mode,
                   show_chart, chart_data>>

\* 'k' | Up: App::previous
KeyPrevious ==
    /\ apc = "events" /\ keysLeft > 0
    /\ selected' = PreviousSelected(selected, ticker_length)
    /\ scroll_position' = WrappingSub(scroll_position, ITEM_HEIGHT)
    /\ keysLeft' = keysLeft - 1
    /\ apc' = "len"
    /\ UNCHANGED <<bridgeVars, queue, ingestVars, lock, tickers, mode,
                   color_index, colors, ticker_length, sort_order, sort_column,
                   sent, ntaken, raw_mode,
                   show_chart, chart_data>>

\* 'j' | Down or 'k' | Up in a build with overflow checks, when the
\* arithmetic of App::next or App::previous overflows: the main task panics
KeyOverflowPanic ==
    /\ apc = "events" /\ keysLeft > 0
    /\ NextOverflows \/ PreviousOverflows
    /\ apc' = "panicked"
    /\ ProcessGone
    /\ UNCHANGED <<appVars, raw_mode>>

\* 'l' | Right: App::next_color
KeyNextColor ==
    /\ apc = "events" /\ keysLeft > 0
    /\ color_index' = (color_index + 1) % PaletteCount
    /\ keysLeft' = keysLeft - 1
    /\ apc' = "len"
    /\ UNCHANGED <<bridgeVars, queue, ingestVars, lock, tickers, mode, selected,
                   scroll_position, colors, ticker_length, sort_order,
                   sort_column, sent, ntaken, raw_mode,
                   show_chart, chart_data>>

\* 'h' | Left: App::previous_color
KeyPreviousColor ==
    /\ apc = "events" /\ keysLeft > 0
    /\ color_index' = (color_index + PaletteCount - 1) % PaletteCount
    /\ keysLeft' = keysLeft - 1
    /\ apc' = "len"
    /\ UNCHANGED <<bridgeVars, queue, ingestVars, lock, tickers, mode, selected,
                   scroll_position, colors, ticker_length, sort_order,
                   sort_column, sent, ntaken, raw_mode,
                   show_chart, chart_data>>

\* Tab: App::next_sort_column
KeyTab ==
    /\ apc = "events" /\ keysLeft > 0
    /\ sort_column' = NextSortColumn(sort_column)
    /\ keysLeft' = keysLeft - 1
    /\ apc' = "len"
    /\ UNCHANGED <<bridgeVars, queue, ingestVars, lock, tickers, mode, selected,
                   scroll_position, color_index, colors, ticker_length,
                   sort_order, sent, ntaken, raw_mode,
                   show_chart, chart_data>>

\* 'r': the sort order is flipped (lines 337-340)
KeyReverse ==
    /\ apc = "events" /\ keysLeft > 0
    /\ sort_order' = IF sort_order = "Ascending" THEN "Descending" ELSE "Ascending"
    /\ keysLeft' = keysLeft - 1
    /\ apc' = "len"
    /\ UNCHANGED <<bridgeVars, queue, ingestVars, lock, tickers, mode, selected,
                   scroll_position, color_index, colors, ticker_length,
                   sort_column, sent, ntaken, raw_mode,
                   show_chart, chart_data>>

\* Enter: the arm that opened and closed the chart is commented out (lines
\* 341-349), so the key falls to the arm `_ => {}` (line 350)
KeyEnter ==
    /\ apc = "events" /\ keysLeft > 0
    /\ keysLeft' = keysLeft - 1
    /\ apc' = "len"
    /\ UNCHANGED <<bridgeVars, queue, ingestVars, lock, tickers, appVars, sent,
                   ntaken, raw_mode>>

\* terminal.draw returns Err (line 632): the ? of run_app returns it, and the
\* ? after run_app (line 669) returns it from main, past lines 671-678.  The
\* store and the session go with the process, so it makes no difference to
\* what is left whether the closure had run
DrawError ==
    /\ apc = "len"
    /\ chart_data = "None"
    /\ apc' = "failed"
    /\ ProcessGone
    /\ UNCHANGED <<appVars, raw_mode>>

\* get_chart_data finds no handle to take (line 355), then
\* app.ticker_length = tickers_clone.lock().unwrap().len() (line 634); the
\* guard is a temporary, dropped at the end of the statement
DrawLen ==
    /\ apc = "len"
    /\ chart_data = "None"
    /\ LockFree
    /\ ticker_length' = Len(tickers)
    /\ apc' = "table"
    /\ UNCHANGED <<bridgeVars, queue, ingestVars, lock, tickers, mode, selected,
                   scroll_position, color_index, colors, sort_order, sort_column,
                   keysLeft, sent, ntaken, raw_mode,
                   show_chart, chart_data>>

\* the colour of the last-price cell of a row (lines 487-497); the f32
\* operators > and < are false when either side is NaN
PriceColorSwapped(t) ==
    IF partial_cmp(t.c, t.previous_price) = "Less" THEN "Green"
    ELSE IF partial_cmp(t.c, t.previous_price) = "Greater" THEN "Red"
    ELSE "row_fg"
last_price_color(t) ==
    IF partial_cmp(t.c, t.previous_price) = "Greater" THEN "Green"
    ELSE IF partial_cmp(t.c, t.previous_price) = "Less" THEN "Red"
    ELSE "row_fg"

\* the rows render_table builds from the sorted Vec (lines 480-520)
rows(tks) ==
    [i \in 1..Len(tks) |->
        [s |-> tks[i].s, c |-> tks[i].c, last_price_color |-> last_price_color(tks[i])]]

\* ui (lines 390-399): set_colors, then render_table, which locks the Mutex,
\* sorts the Vec behind it in place and paints its records in that order
DrawTable ==
    /\ apc = "table" /\ is_running(mode)
    /\ ~show_chart
    /\ LockFree
    /\ ~SortPanics(sort_column, tickers)
    /\ colors' = color_index
    /\ tickers' = sort_tickers(sort_column, sort_order, tickers)
    /\ apc' = "events"
    /\ UNCHANGED <<bridgeVars, queue, ingestVars, lock, mode, selected,
                   scroll_position, color_index, ticker_length, sort_order,
                   sort_column, keysLeft, sent, ntaken, raw_mode,
                   show_chart, chart_data>>

\* the frame when a comparison of the sort is None: unwrap() panics on the
\* main task, inside terminal.draw
DrawTablePanic ==
    /\ apc = "table"
    /\ ~show_chart
    /\ LockFree
    /\ SortPanics(sort_column, tickers)
    /\ colors' = color_index
    /\ apc' = "panicked"
    /\ ProcessGone
    /\ UNCHANGED <<mode, selected, scroll_position, color_index,
                   ticker_length, sort_order, sort_column, raw_mode,
                   show_chart, chart_data>>

\* the same frame when the mode is Quit: after it run_app leaves the loop
\* (lines 639-641) and returns Ok, main restores the terminal and returns
LastFrame ==
    /\ apc = "table" /\ ~is_running(mode)
    /\ ~show_chart
    /\ LockFree
    /\ ~SortPanics(sort_column, tickers)
    /\ colors' = color_index
    /\ apc' = "exited"
    /\ raw_mode' = Restore
    /\ ProcessGone
    /\ UNCHANGED <<mode, selected, scroll_position, color_index,
                   ticker_length, sort_order, sort_column,
                   show_chart, chart_data>>

Bridge == BridgeRecvText \/ BridgeRecvMalformed \/ BridgeRecvOther
            \/ BridgeStreamEnd \/ BridgeSend

Ingest == IngestRecv \/ IngestChannelClosed \/ IngestLock \/ IngestPush
            \/ IngestCarry \/ IngestReplace

Render == NoEvent \/ EventError \/ KeyQuit \/ KeyNext \/ KeyPrevious
            \/ KeyOverflowPanic \/ KeyNextColor
            \/ KeyPreviousColor \/ KeyTab \/ KeyReverse \/ KeyEnter
            \/ DrawError \/ DrawLen
            \/ DrawTable \/ LastFrame

Next == Bridge \/ Ingest \/ Render

Spec == Init /\ [][Next]_vars

\* the scheduler keeps polling the ingestion task and the main task
FairSpec == Spec /\ WF_vars(Ingest) /\ WF_vars(Render)

(***************************************************************************)
(* The frames alone.  The feed has delivered up to MaxRecs records, NaN    *)
(* values among them, update_tickers has applied them and the stream has   *)
(* ended; the user has chosen a sort column and a sort order and presses   *)
(* no more keys.  The render loop paints frame after frame.                *)
(***************************************************************************)
SortColumns == {"Symbol", "Last", "PercentChange", "Open", "High", "Low", "Volume"}
SortOrders  == {"Ascending", "Descending"}

FrameRecords == {B1, A1, A2, N1}

FrameInit ==
    /\ \E n \in 0..MaxRecs : \E recs \in [1..n -> FrameRecords] :
          /\ tickers = UpsertAll(<<>>, recs)
          /\ sent = <<recs>>
    /\ ntaken = 1
    /\ sort_column \in SortColumns
    /\ sort_order \in SortOrders
    /\ feedLeft = 0 /\ bpc = "closed" /\ parsed = <<>> /\ queue = <<>>
    /\ ipc = "ended" /\ results = <<>> /\ idx = 0 /\ lock = "free"
    /\ apc = "events" /\ raw_mode = TRUE /\ mode = "Running"
    /\ selected = None /\ scroll_position = 0
    /\ color_index = InitialColorIndex /\ colors = 0
    /\ ticker_length = InitialTickerLength
    /\ show_chart = FALSE /\ chart_data = "None"
    /\ keysLeft = 0

FrameNext == NoEvent \/ DrawLen \/ DrawTable \/ DrawTablePanic

FrameSpec == FrameInit /\ [][FrameNext]_vars

(***************************************************************************)
(* The view session alone.  The stream has ended after at most one batch;  *)
(* the user presses up to SessionKeys keys.                                *)
(***************************************************************************)
SessionFeeds == {<<>>, <<B1>>, <<B1, A1>>}

SessionInit ==
    /\ \E recs \in SessionFeeds :
          /\ tickers = UpsertAll(<<>>, recs)
          /\ sent = <<recs>>
    /\ ntaken = 1
    /\ feedLeft = 0 /\ bpc = "closed" /\ parsed = <<>> /\ queue = <<>>
    /\ ipc = "ended" /\ results = <<>> /\ idx = 0 /\ lock = "free"
    /\ apc = "events" /\ raw_mode = TRUE /\ mode = "Running"
    /\ selected = None /\ scroll_position = 0
    /\ color_index = InitialColorIndex /\ colors = 0
    /\ ticker_length = InitialTickerLength
    /\ sort_order = "Ascending" /\ sort_column = "Symbol"
    /\ show_chart = FALSE /\ chart_data = "None"
    /\ keysLeft = SessionKeys

SessionSpec == SessionInit /\ [][Render]_vars

(***************************************************************************)
(* What the history says.                                                  *)
(***************************************************************************)
RECURSIVE Flatten(_)
Flatten(batches) ==
    IF batches = <<>> THEN <<>> ELSE Head(batches) \o Flatten(Tail(batches))

\* the ingestion loop is inside update_tickers
Applying == ipc \in {"lock", "find", "copy"}

\* the records whose application is complete, in the order they were sent
AppliedRecords ==
    LET taken == Flatten(SubSeq(sent, 1, ntaken))
    IN  IF Applying THEN SubSeq(taken, 1, Len(taken) - Len(results)) ELSE taken

\* the number of batches whose application is complete
NApplied == IF Applying THEN ntaken - 1 ELSE ntaken

\* the store that applying AppliedRecords one whole record at a time gives
WholeStore == UpsertAll(<<>>, AppliedRecords)

Whole(t) == \E j \in 1..Len(WholeStore) : WholeStore[j] = t

\* the last record of recs with symbol s
LastFor(s, recs) ==
    recs[CHOOSE k \in 1..Len(recs) :
            recs[k].s = s /\ \A m \in (k + 1)..Len(recs) : recs[m].s # s]

\* t carries every value that an update replaces from r
CarriesValuesOf(t, r) ==
    /\ t.p = r.p /\ t.P = r.P /\ t.w = r.w /\ t.c = r.c /\ t.Q = r.Q
    /\ t.o = r.o /\ t.h = r.h /\ t.l = r.l /\ t.v = r.v /\ t.q = r.q
    /\ t.O = r.O /\ t.C = r.C /\ t.F = r.F /\ t.L = r.L /\ t.n = r.n

HasRepeatedSymbol(batch) ==
    \E i, j \in 1..Len(batch) : i # j /\ batch[i].s = batch[j].s

(***************************************************************************)
(* C1  Key uniqueness: whatever batches update_tickers has applied, the    *)
(* store never holds two records with the same symbol.                     *)
(***************************************************************************)
C1_KeyUniqueness ==
    \A i, j \in 1..Len(tickers) : i # j => tickers[i].s # tickers[j].s

\* a batch that repeats a symbol has been applied to a store of two records
C1_Witness ==
    /\ ipc = "recv" /\ Len(tickers) = 2
    /\ \E k \in 1..ntaken : HasRepeatedSymbol(sent[k])

(***************************************************************************)
(* C2  Merge rule: applying a record whose symbol is in the store keeps    *)
(* the stored record's symbol, sets its previous_price to the last price   *)
(* it held just before the update and every replaced field to the          *)
(* incoming value, and changes no other record; applying a record whose    *)
(* symbol is unknown appends exactly that record and changes no other.     *)
(***************************************************************************)
Known(s) == \E i \in 1..Len(tickers) : tickers[i].s = s

C2_MergeRule ==
    [][ LET new == Head(results)
            i   == CHOOSE k \in 1..Len(tickers) : tickers[k].s = new.s
        IN
        \* the step that leaves "find": a push, or the carry of line 593
        /\ (ipc = "find" /\ ipc' # "gone" /\ (ipc' # "find" \/ results' # results)) =>
              IF Known(new.s)
              THEN /\ Len(tickers') = Len(tickers)
                   /\ tickers'[i].previous_price = tickers[i].c
                   /\ tickers'[i].c = tickers[i].c
                   /\ tickers'[i].s = tickers[i].s
                   /\ \A j \in 1..Len(tickers) : j # i => tickers'[j] = tickers[j]
                   /\ ipc' = "copy"
              ELSE tickers' = Append(tickers, new)
        \* the step that leaves "copy": the replacement of lines 594-608
        /\ (ipc = "copy" /\ ipc' \notin {"copy", "gone"}) =>
              /\ Len(tickers') = Len(tickers)
              /\ tickers'[i].s = tickers[i].s
              /\ tickers'[i].previous_price = tickers[i].previous_price
              /\ CarriesValuesOf(tickers'[i], new)
              /\ \A j \in 1..Len(tickers) : j # i => tickers'[j] = tickers[j]
      ]_vars

\* ADAUSDT at 50000 has been replaced by ADAUSDT at 50500
C2_Witness ==
    /\ ipc # "copy"
    /\ \E i \in 1..Len(tickers) :
          /\ tickers[i].s = "ADAUSDT"
          /\ tickers[i].previous_price = 50000
          /\ CarriesValuesOf(tickers[i], A2)

(***************************************************************************)
(* C3  Merge idempotence: applying a record twice in a row gives the store *)
(* that applying it once gives, except that the record's previous_price    *)
(* is then its own last price.                                             *)
(***************************************************************************)
WithPrevious(tks, s, price) ==
    [i \in 1..Len(tks) |->
        IF tks[i].s = s THEN [tks[i] EXCEPT !.previous_price = price] ELSE tks[i]]

C3_MergeIdempotence ==
    \A r \in Records :
        Upsert(Upsert(tickers, r), r) = WithPrevious(Upsert(tickers, r), r.s, r.c)

\* the run itself has applied the same record twice in a row
C3_Witness ==
    /\ ipc = "recv" /\ ntaken > 0
    /\ LET recs == AppliedRecords IN
       /\ Len(recs) >= 2
       /\ recs[Len(recs)] = recs[Len(recs) - 1]
       /\ \E i \in 1..Len(tickers) :
             /\ tickers[i].s = recs[Len(recs)].s
             /\ tickers[i].previous_price = tickers[i].c

(***************************************************************************)
(* C4  Ordering: the ingestion loop takes the batches in the order the     *)
(* bridge sent them, none twice and none skipped, and applies the records  *)
(* of a batch in their order, so the stored record of a symbol carries the *)
(* values of the last record applied for that symbol.                      *)
(***************************************************************************)
IsSuffix(s, whole) ==
    Len(s) <= Len(whole) /\ s = SubSeq(whole, Len(whole) - Len(s) + 1, Len(whole))

C4_Ordering ==
    \* the channel holds the batches sent and not yet taken, oldest first
    /\ ntaken <= Len(sent)
    /\ queue = SubSeq(sent, ntaken + 1, Len(sent))
    \* the batch being applied is the last one taken, applied front to back
    /\ Applying => IsSuffix(results, sent[ntaken])
    \* the store reflects the last applied record of every symbol
    /\ ipc # "copy" =>
          LET applied == AppliedRecords IN
          /\ \A i \in 1..Len(tickers) :
                /\ \E k \in 1..Len(applied) : applied[k].s = tickers[i].s
                /\ CarriesValuesOf(tickers[i], LastFor(tickers[i].s, applied))
          /\ \A k \in 1..Len(applied) : Known(applied[k].s)

\* two different batches waited in the channel together and both are applied
C4_Witness ==
    /\ ipc = "recv" /\ ntaken = 2 /\ Len(sent) = 3 /\ Len(queue) = 1
    /\ sent[1] # sent[2] /\ sent[2] # sent[3]
    /\ bpc = "recv" /\ feedLeft = 0
    /\ Len(tickers) = 2

(***************************************************************************)
(* C5  Per-record atomicity: every record that a frame reads from the      *)
(* store is whole: it is the record that applying the completed updates    *)
(* one whole record at a time gives (all replaced fields from one update,  *)
(* previous_price the last price held before it), never a record between   *)
(* line 593 and line 608.                                                  *)
(***************************************************************************)
C5_PerRecordAtomicity ==
    [][ (apc = "table" /\ apc' # "table") =>
            LET whole == WholeStore IN
            \A i \in 1..Len(tickers) :
                \E j \in 1..Len(whole) : whole[j] = tickers[i] ]_vars

\* the frame is about to read while update_tickers is between line 593 and
\* line 608 of a record, which is not whole at that moment
C5_Witness ==
    /\ apc = "table" /\ ipc = "copy"
    /\ ~Whole(tickers[idx])

(***************************************************************************)
(* C6  Single writer: a render frame (the row count, then the rows) only   *)
(* reads the store and leaves the shared Vec as it found it.               *)
(***************************************************************************)
C6_RenderOnlyReads ==
    [][ ((apc = "len" /\ apc' = "table") \/ (apc = "table" /\ apc' = "events"))
            => tickers' = tickers ]_vars

(***************************************************************************)
(* C7  Decode-error recovery: a text message that does not decode never    *)
(* terminates the feed bridge.                                             *)
(***************************************************************************)
C7_MalformedNeverTerminates == bpc # "panicked"

(***************************************************************************)
(* C8  No back-pressure (as claimed): the bridge's send of a decoded batch *)
(* is never blocked.                                                       *)
(***************************************************************************)
C8_SendNeverBlocks == bpc = "send" => ENABLED BridgeSend

(***************************************************************************)
(* C8  (amended) The channel is bounded: it never holds more than          *)
(* ChannelCapacity batches, and the bridge's send is blocked exactly while *)
(* it holds ChannelCapacity of them.                                       *)
(***************************************************************************)
C8_BoundedChannel ==
    /\ Len(queue) <= ChannelCapacity
    /\ bpc = "send" => (ENABLED BridgeSend <=> Len(queue) < ChannelCapacity)

\* the bridge holds a decoded batch and the channel is full
C8_Witness == bpc = "send" /\ Len(queue) = ChannelCapacity

(***************************************************************************)
(* C9  Eventual application (as claimed): under fair scheduling, every     *)
(* batch the bridge has sent is eventually applied to the store.  A run in *)
(* which the main task panics is not counted against the claim here, so    *)
(* what refutes it is an orderly return of main.                           *)
(***************************************************************************)
C9_EventuallyApplied ==
    \A k \in 1..MaxMsgs : (Len(sent) >= k) ~> (NApplied >= k \/ apc = "panicked")

(***************************************************************************)
(* C9  (amended) Under fair scheduling, every batch the bridge has sent is *)
(* eventually applied to the store, unless the process ends first (main    *)
(* returns after a quit or an input error, or the render loop panics).     *)
(***************************************************************************)
C9_AppliedUnlessProcessEnds ==
    \A k \in 1..MaxMsgs : (Len(sent) >= k) ~> (NApplied >= k \/ ~Alive)

\* three batches have been applied while frames were painted and the
\* process is still running
C9_Witness ==
    /\ Alive /\ NApplied = 3 /\ Len(sent) = 3
    /\ ticker_length = Len(tickers) /\ Len(tickers) = 2

(***************************************************************************)
(* C10  Selection wraparound (as claimed): with a row count N >= 1 that    *)
(* does not change and any selection, none included, N calls of next()     *)
(* bring the selection back to where it started.                           *)
(***************************************************************************)
RECURSIVE NextTimes(_, _, _)
NextTimes(sel, n, times) ==
    IF times = 0 THEN sel ELSE NextTimes(NextSelected(sel, n), n, times - 1)

\* ticker_length is the number of rows of the store, and there is a row
RowCountKnown == ticker_length = Len(tickers) /\ ticker_length >= 1

C10_WrapAroundFromAny ==
    RowCountKnown => NextTimes(selected, ticker_length, ticker_length) = selected

(***************************************************************************)
(* C10  (amended) With a row count N >= 1 that does not change and a       *)
(* selected row i < N, N calls of next() bring the selection back to i;    *)
(* from no selection they end on row N - 1 and never return to none.       *)
(***************************************************************************)
C10_WrapAroundFromRow ==
    ticker_length >= 1 =>
        /\ (selected # None /\ selected < ticker_length) =>
              NextTimes(selected, ticker_length, ticker_length) = selected
        /\ selected = None =>
              /\ NextTimes(selected, ticker_length, ticker_length) = ticker_length - 1
              /\ \A m \in 1..ticker_length :
                    NextTimes(selected, ticker_length, m) # None

\* next() has selected a row of a table of two rows
C10_Witness ==
    /\ RowCountKnown /\ ticker_length = 2
    /\ selected = 0 /\ scroll_position = 1

(***************************************************************************)
(* C11  Empty-table selection: when the row count is 0 (the store is       *)
(* empty and a frame has recorded it), a call of next() leaves the         *)
(* selection at none, and no call of next() meets an arithmetic error.     *)
(***************************************************************************)
C11_EmptyTableSelection ==
    [][ (tickers = <<>> /\ ticker_length = 0) =>
            /\ KeyNext => selected' = None
            /\ (apc = "events" /\ keysLeft > 0) => ~NextOverflows ]_vars

(***************************************************************************)
(* C12  Input path never crashes: no next or previous key event panics     *)
(* the main task, and each moves the scroll offset by ITEM_HEIGHT without  *)
(* leaving the range of usize and selects an index that is not below 0.    *)
(***************************************************************************)
C12_InputPathNeverOverflows ==
    [][ /\ KeyOverflowPanic => FALSE
        /\ KeyNext =>
              /\ scroll_position' = scroll_position + ITEM_HEIGHT
              /\ selected' >= 0
        /\ KeyPrevious =>
              /\ scroll_position' = scroll_position - ITEM_HEIGHT
              /\ scroll_position' >= 0
              /\ selected' >= 0 ]_vars

(***************************************************************************)
(* C13  NaN policy: a frame that sorts by a numeric column a store with a  *)
(* record whose key is NaN does not panic, and paints the NaN records      *)
(* after every record with a numeric key (before them when the order is    *)
(* Descending).                                                            *)
(***************************************************************************)
HasNaNKey(col, tks) ==
    col \in NumericColumns /\ \E i \in 1..Len(tks) : NumericKey(col, tks[i]) = NaN

C13_NaNSortsGreatest ==
    [][ (apc = "table" /\ apc' # "table" /\ HasNaNKey(sort_column, tickers)) =>
            /\ apc' # "panicked"
            /\ \A i, j \in 1..Len(tickers') :
                  (/\ NumericKey(sort_column, tickers'[i]) = NaN
                   /\ NumericKey(sort_column, tickers'[j]) # NaN)
                      => IF sort_order = "Ascending" THEN i > j ELSE i < j ]_vars

(***************************************************************************)
(* C14  Descending order is global reversal: for every store and every     *)
(* sort column on which the sort completes, the Descending output of       *)
(* sort_tickers holds the records of the input, no key ascends along it,   *)
(* and records that tie on the key stand in the reverse of their input     *)
(* order.                                                                  *)
(***************************************************************************)
Position(tks, t) == CHOOSE i \in 1..Len(tks) : tks[i] = t

SameRecords(a, b) ==
    /\ Len(a) = Len(b)
    /\ \A i \in 1..Len(a) : \E j \in 1..Len(b) : b[j] = a[i]

C14_DescendingIsReversal ==
    \A col \in SortColumns :
        ~SortPanics(col, tickers) =>
            LET out == sort_tickers(col, "Descending", tickers) IN
            /\ SameRecords(tickers, out)
            /\ \A i, j \in 1..Len(out) :
                  i < j =>
                     /\ ~Less(col, out[i], out[j])
                     /\ ~Less(col, out[j], out[i]) =>
                            Position(tickers, out[i]) > Position(tickers, out[j])

\* a Descending frame by Last has painted BTCUSDT and ADAUSDT, which tie at
\* 50000 and arrived in that order, as ADAUSDT, BTCUSDT
C14_Witness ==
    /\ apc = "events" /\ ticker_length = 2
    /\ sort_column = "Last" /\ sort_order = "Descending"
    /\ sent[1] = <<B1, A1>>
    /\ tickers = <<A1, B1>>

(***************************************************************************)
(* C15  Sort keys per column: sorted by Symbol the rows stand in the       *)
(* bytewise lexicographic order of their symbols, sorted by Volume in the  *)
(* bytewise lexicographic order of their volume strings (so "10" stands    *)
(* before "9"); Descending turns the order around.                         *)
(***************************************************************************)
\* a is a prefix of b, or a is smaller at the first place where they differ
LexLeq(a, b) ==
    \/ Len(a) <= Len(b) /\ \A k \in 1..Len(a) : a[k] = b[k]
    \/ \E k \in 1..Len(a) :
          /\ k <= Len(b) /\ a[k] < b[k]
          /\ \A m \in 1..(k - 1) : a[m] = b[m]

StringKey(col, t) == IF col = "Symbol" THEN Bytes(t.s) ELSE Bytes(t.v)

C15_SortKeysPerColumn ==
    \A col \in {"Symbol", "Volume"} : \A order \in SortOrders :
        LET out == sort_tickers(col, order, tickers) IN
        /\ SameRecords(tickers, out)
        /\ \A i, j \in 1..Len(out) :
              i < j => IF order = "Ascending"
                       THEN LexLeq(StringKey(col, out[i]), StringKey(col, out[j]))
                       ELSE LexLeq(StringKey(col, out[j]), StringKey(col, out[i]))

\* an Ascending frame by Volume has painted the volume "10" above "9"
C15_Witness ==
    /\ apc = "events" /\ ticker_length = 2
    /\ sort_column = "Volume" /\ sort_order = "Ascending"
    /\ tickers[1].v = "10" /\ tickers[2].v = "9"

(***************************************************************************)
(* C16  Color derivation: in every frame the last-price cell of a row      *)
(* shows the last price applied for its symbol and is Green iff that price *)
(* is greater than the price the record held before its last update (the   *)
(* default 0 when it was never updated), Red iff it is less, and the       *)
(* row's foreground otherwise.                                             *)
(***************************************************************************)
\* the last price that symbol s held before its last record of recs
PriceBefore(s, recs) ==
    LET at == {k \in 1..Len(recs) : recs[k].s = s}
        last == CHOOSE k \in at : \A m \in at : m <= k
        earlier == at \ {last}
    IN  IF earlier = {} THEN default_previous_price
        ELSE recs[CHOOSE k \in earlier : \A m \in earlier : m <= k].c

C16_ColorDerivation ==
    [][ (apc = "table" /\ apc' = "events") =>
            LET painted == rows(tickers')
                applied == AppliedRecords
            IN  \A i \in 1..Len(painted) :
                   LET now    == LastFor(painted[i].s, applied).c
                       before == PriceBefore(painted[i].s, applied)
                       comparable == now # NaN /\ before # NaN
                   IN  /\ painted[i].c = now
                       /\ painted[i].last_price_color = "Green"
                             <=> (comparable /\ now > before)
                       /\ painted[i].last_price_color = "Red"
                             <=> (comparable /\ now < before)
                       /\ painted[i].last_price_color \in {"Green", "Red", "row_fg"}
      ]_vars

\* ADAUSDT came at 50000 and then at 50500: a frame has painted the one
\* record, which holds 50500 and the previous price 50000, in Green
C16_Witness ==
    /\ apc = "events" /\ ticker_length = 1
    /\ sent[1] = <<A1, A2>>
    /\ Len(tickers) = 1
    /\ tickers[1].c = 50500 /\ tickers[1].previous_price = 50000
    /\ rows(tickers)[1].last_price_color = "Green"

(***************************************************************************)
(* C17  Sort-column cycle: a Tab event moves sort_column one step along    *)
(* Symbol, Last, PercentChange, Open, High, Low, Volume, Symbol and        *)
(* changes nothing else of the session, and seven Tab events bring         *)
(* sort_column back to where it was.                                       *)
(***************************************************************************)
SortColumnCycle ==
    <<"Symbol", "Last", "PercentChange", "Open", "High", "Low", "Volume">>

Successor(col) ==
    LET k == CHOOSE i \in 1..Len(SortColumnCycle) : SortColumnCycle[i] = col
    IN  SortColumnCycle[(k % Len(SortColumnCycle)) + 1]

RECURSIVE TabTimes(_, _)
TabTimes(col, times) ==
    IF times = 0 THEN col ELSE TabTimes(NextSortColumn(col), times - 1)

C17_SortColumnCycle ==
    [][ KeyTab =>
           /\ sort_column' = Successor(sort_column)
           /\ UNCHANGED <<mode, selected, scroll_position, color_index, colors,
                          ticker_length, sort_order>>
           /\ TabTimes(sort_column, Len(SortColumnCycle)) = sort_column ]_vars

\* seven Tab events, with frames between them, have brought the session of a
\* table of two rows back to Symbol
C17_Witness ==
    /\ apc = "events" /\ keysLeft = SessionKeys - 7
    /\ ticker_length = 2
    /\ sort_column = "Symbol" /\ sort_order = "Ascending"
    /\ selected = None /\ scroll_position = 0
    /\ color_index = InitialColorIndex /\ mode = "Running"

(***************************************************************************)
(* C18  Initial session state: as long as no key has been pressed the      *)
(* session has sort column Symbol, order Ascending, no selection, mode     *)
(* Running and palette index 0, and the frames painted use palette 0.      *)
(***************************************************************************)
C18_InitialSession ==
    (Alive /\ keysLeft = MaxKeys) =>
        /\ sort_column = "Symbol" /\ sort_order = "Ascending"
        /\ selected = None /\ mode = "Running"
        /\ color_index = 0 /\ colors = 0

(***************************************************************************)
(* C19  Quit (as claimed, second half): the render loop ends orderly only  *)
(* when the session mode is Quit.                                          *)
(***************************************************************************)
C19_EndsOnlyOnQuit == apc = "exited" => mode = "Quit"

(***************************************************************************)
(* C19  (amended) Once the mode is Quit the render loop ends, whatever the *)
(* feed, the channel and the ingestion loop still hold; and run_app        *)
(* returns Ok only after a frame painted in Quit mode or when the poll for *)
(* an input event fails, and returns an error only when a draw fails.      *)
(***************************************************************************)
C19_QuitOrInputError ==
    /\ (mode = "Quit") ~> ~Alive
    /\ [][ /\ (Alive /\ apc' = "exited") =>
                 \/ apc = "table" /\ mode = "Quit"
                 \/ apc = "events" /\ mode = "Running"
           /\ (Alive /\ apc' = "failed") => apc = "len"
           /\ mode = "Quit" => mode' = "Quit" ]_vars

\* the last frame is about to be painted while the bridge holds a decoded
\* batch and the channel holds another
C19_Witness ==
    /\ mode = "Quit" /\ apc = "table" /\ lock = "free"
    /\ bpc = "send" /\ queue # <<>>

(***************************************************************************)
(* C20  Terminal restoration: whenever main has returned, with Ok or with  *)
(* an error, the terminal is no longer in raw mode.                        *)
(***************************************************************************)
C20_TerminalRestored == apc \in {"exited", "failed"} => ~raw_mode

(***************************************************************************)
(* C21  Open chart: an Enter key event while the chart is closed opens the *)
(* chart modal and starts a fetch; a fetch is started only when none is in *)
(* flight; a key event while the modal is open closes it and drops the     *)
(* fetch handle.                                                           *)
(***************************************************************************)
C21_EnterOpensChart ==
    [][ /\ (KeyEnter /\ ~show_chart) => (show_chart' /\ chart_data' = "Some")
        /\ (chart_data = "Some" /\ chart_data' = "Some") => UNCHANGED show_chart
        /\ (show_chart /\ keysLeft' < keysLeft) =>
              (~show_chart' /\ chart_data' = "None") ]_vars

(***************************************************************************)
(* C22  Frame determinism: when nothing is applied to the store and no     *)
(* input arrives, the frame after a painted frame paints the rows in the   *)
(* same order, also when records tie on the sort key and the order is      *)
(* Descending.                                                             *)
(***************************************************************************)
\* the symbols of the rows, top to bottom
RowOrder(tks) == [i \in 1..Len(tks) |-> rows(tks)[i].s]

C22_FrameDeterminism ==
    [][ (apc = "table" /\ apc' = "events") =>
            \* the frame painted tickers'; the next frame starts from the Vec
            \* this one leaves
            (~SortPanics(sort_column, tickers') =>
                RowOrder(sort_tickers(sort_column, sort_order, tickers'))
                    = RowOrder(tickers')) ]_vars

(***************************************************************************)
(* C23  Single snapshot per frame: the row count a frame records in        *)
(* ticker_length is the number of rows it paints, however the ingestion    *)
(* loop interleaves.                                                       *)
(***************************************************************************)
C23_SingleSnapshot ==
    [][ (apc = "table" /\ apc' = "events") =>
            ticker_length' = Len(rows(tickers')) ]_vars

====
